---- MODULE Spec2Model ----
(***************************************************************************)
(* The STM32 ADC v1 driver (embassy-stm32/src/adc/v1.rs) as a state        *)
(* machine: one task that constructs a driver, configures it, reads and    *)
(* drops it; the completion interrupt handler, which preempts the task     *)
(* between any two of its register accesses; and the ADC hardware, which   *)
(* answers the control bits the driver sets.                               *)
(*                                                                         *)
(* Each task action is one register access (or one call of a collaborator) *)
(* of the source, in program order; pc is the task's position.  A read     *)
(* future is polled to completion: the driver has no cancellation path.    *)
(* The interrupt handler runs to completion once entered.  The NVIC        *)
(* latches the request (EOC and EOCIE) as pending; the handler is entered  *)
(* some time after, so the task may run on while the request is pending    *)
(* (masked interrupts, an executor running above the handler's priority).  *)
(* The wake slot holds at most one waker, which wake() takes; the scheduler *)
(* polls a suspended task again only once it was woken.                    *)
(*                                                                         *)
(* Spec and LiveSpec run any program of MaxCalls calls; InternalSpec runs  *)
(* the program that enables the three internal sources and reads them;     *)
(* MvSpec runs the millivolt conversion of examples/stm32f0/src/bin/adc.rs *)
(* on its own.                                                             *)
(***************************************************************************)
EXTENDS Integers, FiniteSets, Sequences, TLC

\* ---------------------------------------------------------------- bounds
\* ADEN writes the hardware may ignore right after calibration (ES0233 2.4.3).
MaxIgnore == 2
\* Calls the program makes in one run: constructions of a driver (one after
\* the other on the one peripheral), configuration, enable and read calls.
MaxCalls == 4

\* ------------------------------------------------------------- constants
\* External pins offered by the pin capability (channel numbers).
Pins == {0, 1}
\* The fixed channel of each internal source.
VbatChannel == 18
VrefChannel == 17
TemperatureChannel == 16

Tokens == {"Vbat", "Vref", "Temperature"}

\* InternalChannel::channel of the three token types.
channel(tok) ==
    CASE tok = "Vbat" -> VbatChannel
      [] tok = "Vref" -> VrefChannel
      [] tok = "Temperature" -> TemperatureChannel

Channels == Pins \cup {channel(t) : t \in Tokens}

\* The CCR enable bit that powers the source converted on an internal channel.
EnableBitOf(ch) ==
    CASE ch = VbatChannel -> "Vbat"
      [] ch = VrefChannel -> "Vref"
      [] ch = TemperatureChannel -> "Temperature"
      [] OTHER -> "none"

\* Encoded sample times offered to set_sample_time (SMPR.SMP field values).
SampleTimes == {0, 6}
DefaultSampleTime == 0

\* CFGR1.RES encodings: 0 = 12 bit, 1 = 10 bit, 2 = 8 bit, 3 = 6 bit.
Resolutions == 0 .. 3
ResolutionBits(r) == 12 - 2 * r
\* The codes the converter can deliver at a resolution (its extremes).
Codes(r) == {0, 2 ^ ResolutionBits(r) - 1}

\* No channel, no value.
None == 0 - 1
\* The conversion of the read under way has not completed.
NotYet == "not_yet"

\* The datasheet value of the internal reference, in mV (the example's
\* VREFINT_MV, the driver's VREF_INT).
VREFINT_MV == 1230
\* Raw codes given to the example's conversion: 12-bit codes, among them
\* the full scales of the four resolutions.
Samples == {0, 1, 63, 75, 76, 255, 1023, 1500, 2048, 4095}
\* The conversion panicked (division by zero).
Panicked == 0 - 2

VARIABLES
    pc,           \* the task's position in the driver code
    inst,         \* number of driver instances constructed so far
    clk,          \* RCC: the ADC clock is enabled
    aden, addis, adstart, adstp, adcal,   \* CR
    eoc, adrdy,   \* ISR (write 1 to clear)
    eocie,        \* IER
    dmaen, res,   \* CFGR1
    chselr,       \* CHSELR: the set of selected channels
    smpr,         \* SMPR.SMP
    dr,           \* DR
    ccr,          \* CCR: the set of enabled internal sources
    nvicPend, nvicEn,   \* interrupt controller: line pending, line enabled
    enIgnore,     \* hardware: ADEN writes still ignored after calibration
    rdyDue,       \* hardware: an accepted enable has not yet raised ADRDY
    sample_time,  \* Adc.sample_time
    chan,         \* the channel of the most recent read
    tokens,       \* internal-channel tokens the program holds
    waker,        \* T::state().waker holds a registered waker
    woken,        \* the task is queued for a poll
    result,       \* the value the call before returned, if it was a read
    signals,      \* history: wake() calls of the handler, this conversion
    complAt,      \* history: where the task was when this conversion completed
    calls,        \* history: calls made so far
    budget,       \* the number of calls the program makes in this run
    delay_us,     \* history: the delay.delay_us calls of the call under way
    vrefint_sample, sample, millivolts,   \* the example's conversion to mV
    switched,     \* history: the most recent read replaced another selection
    ignored       \* history: ADEN writes ignored in the bring-up under way

hwvars == <<clk, aden, addis, adstart, adstp, adcal, eoc, adrdy, eocie, dmaen,
            res, chselr, smpr, dr, ccr, nvicPend, nvicEn, enIgnore, rdyDue>>
swvars == <<pc, inst, sample_time, chan, tokens, waker, woken, result>>
\* The example program's millivolt conversion: its two raw codes, its value.
mvvars == <<vrefint_sample, sample, millivolts>>
\* What is fixed when the program starts.
progvars == <<budget, mvvars>>
histvars == <<signals, complAt, calls, progvars, delay_us, switched,
              ignored>>
\* The history that only read_channel and the enable writes touch.
selhist == <<switched, ignored>>
vars == <<hwvars, swvars, histvars>>

\* Groups left alone together.
crvars == <<aden, addis, adstart, adstp, adcal>>
cfgvars == <<dmaen, res, chselr, smpr, ccr>>
nvicvars == <<nvicPend, nvicEn>>
taskvars == <<sample_time, chan, tokens, waker, woken, result>>

\* The interrupt line is the AND of flag and enable; the NVIC latches it.
Latch(pend, flag, enable) == pend \/ (flag /\ enable)

\* The state before the first construction, whatever the program.
InitState ==
    /\ pc = "uninit"
    /\ inst = 0
    /\ clk = FALSE
    /\ aden = FALSE /\ addis = FALSE /\ adstart = FALSE
    /\ adstp = FALSE /\ adcal = FALSE
    /\ eoc = FALSE /\ adrdy = FALSE
    /\ eocie = FALSE
    /\ dmaen = FALSE /\ res = 0
    /\ chselr = {}
    /\ smpr = 0
    /\ dr = 0
    /\ ccr = {}
    /\ nvicPend = FALSE /\ nvicEn = FALSE
    /\ enIgnore = 0
    /\ rdyDue = FALSE
    /\ sample_time = DefaultSampleTime
    /\ chan = None
    /\ tokens = {}
    /\ waker = FALSE
    /\ woken = FALSE
    /\ result = None
    /\ signals = 0
    /\ complAt = NotYet
    /\ calls = 0
    /\ switched = FALSE
    /\ ignored = 0
    /\ delay_us = <<>>

\* No millivolt conversion is made.
NoConversion ==
    /\ vrefint_sample = None
    /\ sample = None
    /\ millivolts = None

\* A program that makes any MaxCalls calls.
Init ==
    /\ InitState
    /\ budget = MaxCalls
    /\ NoConversion

\* ------------------------------------------------------------- hardware
\* A write of 1 to CR.ADEN.  Right after calibration the hardware ignores
\* the write (ES0233 2.4.3); an accepted write enables the ADC, which then
\* raises ADRDY.  A write while ADEN is already set changes nothing.
WriteAden ==
    IF enIgnore > 0
    THEN /\ enIgnore' = enIgnore - 1
         /\ ignored' = ignored + 1
         /\ UNCHANGED <<aden, rdyDue>>
    ELSE /\ aden' = TRUE
         /\ rdyDue' = (rdyDue \/ ~aden)
         /\ UNCHANGED <<enIgnore, ignored>>

\* Calibration ends: the hardware clears ADCAL.
hw_calibrated ==
    /\ clk /\ adcal
    /\ adcal' = FALSE
    /\ enIgnore' \in 0 .. MaxIgnore
    /\ UNCHANGED <<clk, aden, addis, adstart, adstp, eoc, adrdy, eocie,
                   cfgvars, dr, nvicvars, rdyDue>>
    /\ UNCHANGED <<swvars, histvars>>

\* The enabled ADC becomes ready: the hardware raises ADRDY.
hw_ready ==
    /\ clk /\ aden /\ rdyDue
    /\ adrdy' = TRUE
    /\ rdyDue' = FALSE
    /\ UNCHANGED <<clk, crvars, eoc, eocie, cfgvars, dr, nvicvars, enIgnore>>
    /\ UNCHANGED <<swvars, histvars>>

\* The single conversion ends: the result is in DR, EOC is raised, ADSTART
\* is cleared, and the interrupt line rises if EOCIE is set.
hw_eoc ==
    /\ clk /\ aden /\ adstart /\ ~adstp
    /\ dr' \in Codes(res)
    /\ eoc' = TRUE
    /\ adstart' = FALSE
    /\ nvicPend' = Latch(nvicPend, TRUE, eocie)
    /\ complAt' = IF pc = "pending" /\ woken THEN "pending_queued" ELSE pc
    /\ UNCHANGED <<clk, aden, addis, adstp, adcal, adrdy, eocie, cfgvars,
                   nvicEn, enIgnore, rdyDue>>
    /\ UNCHANGED <<swvars, signals, calls, progvars, delay_us, selhist>>

\* A stop request is acknowledged: the hardware clears ADSTP and ADSTART.
hw_stopped ==
    /\ clk /\ adstp
    /\ adstp' = FALSE
    /\ adstart' = FALSE
    /\ UNCHANGED <<clk, aden, addis, adcal, eoc, adrdy, eocie, cfgvars, dr,
                   nvicvars, enIgnore, rdyDue>>
    /\ UNCHANGED <<swvars, histvars>>

\* A disable request is carried out: the hardware clears ADEN and ADDIS.
hw_disabled ==
    /\ clk /\ addis
    /\ aden' = FALSE
    /\ addis' = FALSE
    /\ rdyDue' = FALSE
    /\ UNCHANGED <<clk, adstart, adstp, adcal, eoc, adrdy, eocie, cfgvars,
                   dr, nvicvars, enIgnore>>
    /\ UNCHANGED <<swvars, histvars>>

\* ---------------------------------------------------- interrupt handler
\* The handler as it would be if it left EOCIE set: the line stays high and
\* the interrupt is taken again.
on_interrupt_keep_eocie ==
    /\ nvicPend /\ nvicEn
    /\ IF eoc
       THEN /\ woken' = (woken \/ waker)
            /\ waker' = FALSE
            /\ signals' = signals + 1
       ELSE UNCHANGED <<woken, waker, signals>>
    /\ nvicPend' = Latch(FALSE, eoc, eocie)
    /\ UNCHANGED <<clk, crvars, eoc, adrdy, eocie, cfgvars, dr, nvicEn,
                   enIgnore, rdyDue>>
    /\ UNCHANGED <<pc, inst, sample_time, chan, tokens, result, complAt,
                   calls, progvars, delay_us, selhist>>

\* The handler as it would be without the flag test: every entry counts as
\* a completion.
on_interrupt_unchecked ==
    /\ nvicPend /\ nvicEn
    /\ eocie' = FALSE
    /\ woken' = (woken \/ waker)
    /\ waker' = FALSE
    /\ signals' = signals + 1
    /\ nvicPend' = Latch(FALSE, eoc, eocie')
    /\ UNCHANGED <<clk, crvars, eoc, adrdy, cfgvars, dr, nvicEn, enIgnore,
                   rdyDue>>
    /\ UNCHANGED <<pc, inst, sample_time, chan, tokens, result, complAt,
                   calls, progvars, delay_us, selhist>>

\* The handler as it would be if it fetched the result itself: reading DR
\* clears EOC.
on_interrupt_reads_dr ==
    /\ nvicPend /\ nvicEn
    /\ IF eoc
       THEN /\ eocie' = FALSE
            /\ eoc' = FALSE
            /\ woken' = (woken \/ waker)
            /\ waker' = FALSE
            /\ signals' = signals + 1
       ELSE UNCHANGED <<eocie, eoc, woken, waker, signals>>
    /\ nvicPend' = Latch(FALSE, eoc', eocie')
    /\ UNCHANGED <<clk, crvars, adrdy, cfgvars, dr, nvicEn, enIgnore, rdyDue>>
    /\ UNCHANGED <<pc, inst, sample_time, chan, tokens, result, complAt,
                   calls, progvars, delay_us, selhist>>

\* InterruptHandler::on_interrupt, entered while the line is pending.
on_interrupt ==
    /\ nvicPend /\ nvicEn
    /\ IF eoc
       THEN /\ eocie' = FALSE
            /\ woken' = (woken \/ waker)
            /\ waker' = FALSE
            /\ signals' = signals + 1
       ELSE UNCHANGED <<eocie, woken, waker, signals>>
    /\ nvicPend' = Latch(FALSE, eoc, eocie')
    /\ UNCHANGED <<clk, crvars, eoc, adrdy, cfgvars, dr, nvicEn, enIgnore,
                   rdyDue>>
    /\ UNCHANGED <<pc, inst, sample_time, chan, tokens, result, complAt,
                   calls, progvars, delay_us, selhist>>

\* --------------------------------------------------------------- Adc::new
\* T::enable(): the clock service turns the ADC clock on.
new_enable ==
    /\ pc \in {"uninit", "disabled"}
    /\ calls < budget
    /\ calls' = calls + 1
    /\ UNCHANGED progvars
    /\ delay_us' = <<>>
    /\ inst' = inst + 1
    /\ clk' = TRUE
    /\ chan' = None
    /\ result' = None
    /\ switched' = FALSE
    /\ ignored' = 0
    /\ pc' = "new_reset"
    /\ UNCHANGED <<crvars, eoc, adrdy, eocie, cfgvars, dr, nvicvars,
                   enIgnore, rdyDue>>
    /\ UNCHANGED <<sample_time, tokens, waker, woken, signals, complAt>>

\* T::reset(), then the 1 us delay: every ADC register has its reset value.
new_reset ==
    /\ pc = "new_reset"
    /\ aden' = FALSE /\ addis' = FALSE /\ adstart' = FALSE
    /\ adstp' = FALSE /\ adcal' = FALSE
    /\ eoc' = FALSE /\ adrdy' = FALSE
    /\ eocie' = FALSE
    /\ dmaen' = FALSE /\ res' = 0
    /\ chselr' = {}
    /\ smpr' = 0
    /\ dr' = 0
    /\ ccr' = {}
    /\ enIgnore' = 0
    /\ rdyDue' = FALSE
    /\ delay_us' = Append(delay_us, 1)
    /\ pc' = "new_dmaen"
    /\ UNCHANGED <<clk, nvicvars, inst, taskvars>>
    /\ UNCHANGED <<signals, complAt, calls, progvars, selhist>>

\* cfgr1().modify(set_dmaen(false))
new_dmaen ==
    /\ pc = "new_dmaen"
    /\ dmaen' = FALSE
    /\ pc' = "new_adcal"
    /\ UNCHANGED <<clk, crvars, eoc, adrdy, eocie, res, chselr, smpr, dr, ccr,
                   nvicvars, enIgnore, rdyDue>>
    /\ UNCHANGED <<inst, taskvars, histvars>>

\* cr().modify(set_adcal(true))
new_adcal ==
    /\ pc = "new_adcal"
    /\ adcal' = TRUE
    /\ pc' = "new_wait_adcal"
    /\ UNCHANGED <<clk, aden, addis, adstart, adstp, eoc, adrdy, eocie,
                   cfgvars, dr, nvicvars, enIgnore, rdyDue>>
    /\ UNCHANGED <<inst, taskvars, histvars>>

\* The calibration wait as it would be without the loop.
new_wait_adcal_no_wait ==
    /\ pc = "new_wait_adcal"
    /\ pc' = "new_clear_adrdy"
    /\ UNCHANGED <<hwvars, inst, taskvars, histvars>>

\* while cr().read().adcal() {}
new_wait_adcal ==
    /\ pc = "new_wait_adcal"
    /\ ~adcal
    /\ pc' = "new_clear_adrdy"
    /\ UNCHANGED <<hwvars, inst, taskvars, histvars>>

\* if isr().read().adrdy() { isr().modify(set_adrdy(true)) }: the modify
\* writes back every flag it read as set, and a written 1 clears the flag.
new_clear_adrdy ==
    /\ pc = "new_clear_adrdy"
    /\ IF adrdy
       THEN eoc' = FALSE /\ adrdy' = FALSE
       ELSE UNCHANGED <<eoc, adrdy>>
    /\ pc' = "new_aden"
    /\ UNCHANGED <<clk, crvars, eocie, cfgvars, dr, nvicvars, enIgnore,
                   rdyDue>>
    /\ UNCHANGED <<inst, taskvars, histvars>>

\* cr().modify(set_aden(true))
new_aden ==
    /\ pc = "new_aden"
    /\ WriteAden
    /\ pc' = "new_wait_adrdy"
    /\ UNCHANGED <<clk, addis, adstart, adstp, adcal, eoc, adrdy, eocie,
                   cfgvars, dr, nvicvars>>
    /\ UNCHANGED <<inst, taskvars, signals, complAt, calls, progvars, delay_us,
                   switched>>

\* The enable wait as it would be without the erratum workaround: ADEN is
\* written once and the loop only polls.
new_wait_adrdy_poll_only ==
    /\ pc = "new_wait_adrdy"
    /\ adrdy
    /\ pc' = "new_unpend"
    /\ UNCHANGED <<hwvars, inst, taskvars, histvars>>

\* The enable wait as it would be if it went on without ADRDY.
new_wait_adrdy_no_wait ==
    /\ pc = "new_wait_adrdy"
    /\ pc' = "new_unpend"
    /\ UNCHANGED <<hwvars, inst, taskvars, histvars>>

\* while !isr().read().adrdy() { cr().modify(set_aden(true)) }
new_wait_adrdy ==
    /\ pc = "new_wait_adrdy"
    /\ IF adrdy
       THEN /\ pc' = "new_unpend"
            /\ UNCHANGED <<aden, enIgnore, rdyDue, ignored>>
       ELSE /\ WriteAden
            /\ UNCHANGED pc
    /\ UNCHANGED <<clk, addis, adstart, adstp, adcal, eoc, adrdy, eocie,
                   cfgvars, dr, nvicvars>>
    /\ UNCHANGED <<inst, taskvars, signals, complAt, calls, progvars, delay_us,
                   switched>>

\* T::Interrupt::unpend()
new_unpend ==
    /\ pc = "new_unpend"
    /\ nvicPend' = FALSE
    /\ pc' = "new_irq_enable"
    /\ UNCHANGED <<clk, crvars, eoc, adrdy, eocie, cfgvars, dr, nvicEn,
                   enIgnore, rdyDue>>
    /\ UNCHANGED <<inst, taskvars, histvars>>

\* T::Interrupt::enable(); Self { adc, sample_time: Default::default() }
new_irq_enable ==
    /\ pc = "new_irq_enable"
    /\ nvicEn' = TRUE
    /\ sample_time' = DefaultSampleTime
    /\ ignored' = 0
    /\ pc' = "ready"
    /\ UNCHANGED <<clk, crvars, eoc, adrdy, eocie, cfgvars, dr, nvicPend,
                   enIgnore, rdyDue>>
    /\ UNCHANGED <<inst, chan, tokens, waker, woken, result, signals, complAt,
                   calls, progvars, delay_us, switched>>

\* ------------------------------------------------- configuration, tokens
\* enable_vbat: sets CCR.VBATEN and returns the token, without a delay.
enable_vbat ==
    /\ pc = "ready"
    /\ calls < budget
    /\ calls' = calls + 1
    /\ UNCHANGED progvars
    /\ delay_us' = <<>>
    /\ result' = None
    /\ ccr' = ccr \cup {"Vbat"}
    /\ tokens' = tokens \cup {"Vbat"}
    /\ UNCHANGED <<clk, crvars, eoc, adrdy, eocie, dmaen, res, chselr, smpr,
                   dr, nvicvars, enIgnore, rdyDue>>
    /\ UNCHANGED <<pc, inst, sample_time, chan, waker, woken, signals, complAt,
                   selhist>>

\* enable_vref as it would be with write in place of modify: the other
\* enable bits of CCR are cleared.
enable_vref_write ==
    /\ pc = "ready"
    /\ calls < budget
    /\ calls' = calls + 1
    /\ UNCHANGED progvars
    /\ delay_us' = <<>>
    /\ result' = None
    /\ ccr' = {"Vref"}
    /\ pc' = "vref_delay"
    /\ UNCHANGED <<clk, crvars, eoc, adrdy, eocie, dmaen, res, chselr, smpr,
                   dr, nvicvars, enIgnore, rdyDue>>
    /\ UNCHANGED <<inst, sample_time, chan, tokens, waker, woken, signals,
                   complAt, selhist>>

\* enable_vref: sets CCR.VREFEN ...
enable_vref ==
    /\ pc = "ready"
    /\ calls < budget
    /\ calls' = calls + 1
    /\ UNCHANGED progvars
    /\ delay_us' = <<>>
    /\ result' = None
    /\ ccr' = ccr \cup {"Vref"}
    /\ pc' = "vref_delay"
    /\ UNCHANGED <<clk, crvars, eoc, adrdy, eocie, dmaen, res, chselr, smpr,
                   dr, nvicvars, enIgnore, rdyDue>>
    /\ UNCHANGED <<inst, sample_time, chan, tokens, waker, woken, signals,
                   complAt, selhist>>

\* ... then delay.delay_us(10) and the token is returned.
enable_vref_delay ==
    /\ pc = "vref_delay"
    /\ delay_us' = Append(delay_us, 10)
    /\ tokens' = tokens \cup {"Vref"}
    /\ pc' = "ready"
    /\ UNCHANGED <<hwvars, inst, sample_time, chan, waker, woken, result>>
    /\ UNCHANGED <<signals, complAt, calls, progvars, selhist>>

\* enable_temperature: sets CCR.TSEN ...
enable_temperature ==
    /\ pc = "ready"
    /\ calls < budget
    /\ calls' = calls + 1
    /\ UNCHANGED progvars
    /\ delay_us' = <<>>
    /\ result' = None
    /\ ccr' = ccr \cup {"Temperature"}
    /\ pc' = "temperature_delay"
    /\ UNCHANGED <<clk, crvars, eoc, adrdy, eocie, dmaen, res, chselr, smpr,
                   dr, nvicvars, enIgnore, rdyDue>>
    /\ UNCHANGED <<inst, sample_time, chan, tokens, waker, woken, signals,
                   complAt, selhist>>

\* enable_temperature as it would be without the settling delay.
enable_temperature_delay_skipped ==
    /\ pc = "temperature_delay"
    /\ tokens' = tokens \cup {"Temperature"}
    /\ pc' = "ready"
    /\ UNCHANGED <<hwvars, inst, sample_time, chan, waker, woken, result,
                   histvars>>

\* ... then delay.delay_us(10) and the token is returned.
enable_temperature_delay ==
    /\ pc = "temperature_delay"
    /\ delay_us' = Append(delay_us, 10)
    /\ tokens' = tokens \cup {"Temperature"}
    /\ pc' = "ready"
    /\ UNCHANGED <<hwvars, inst, sample_time, chan, waker, woken, result>>
    /\ UNCHANGED <<signals, complAt, calls, progvars, selhist>>

\* set_sample_time as it would be if it applied the setting to the hardware
\* at once.
set_sample_time_applied(s) ==
    /\ pc = "ready"
    /\ calls < budget
    /\ calls' = calls + 1
    /\ UNCHANGED progvars
    /\ delay_us' = <<>>
    /\ result' = None
    /\ sample_time' = s
    /\ smpr' = s
    /\ UNCHANGED <<clk, crvars, eoc, adrdy, eocie, dmaen, res, chselr, dr, ccr,
                   nvicvars, enIgnore, rdyDue>>
    /\ UNCHANGED <<pc, inst, chan, tokens, waker, woken, signals, complAt,
                   selhist>>

\* set_sample_time: stores the setting on the driver instance.
set_sample_time(s) ==
    /\ pc = "ready"
    /\ calls < budget
    /\ calls' = calls + 1
    /\ UNCHANGED progvars
    /\ delay_us' = <<>>
    /\ result' = None
    /\ sample_time' = s
    /\ UNCHANGED <<hwvars, pc, inst, chan, tokens, waker, woken, signals,
                   complAt, selhist>>

\* set_resolution: cfgr1().modify(set_res(resolution))
set_resolution(r) ==
    /\ pc = "ready"
    /\ calls < budget
    /\ calls' = calls + 1
    /\ UNCHANGED progvars
    /\ delay_us' = <<>>
    /\ result' = None
    /\ res' = r
    /\ UNCHANGED <<clk, crvars, eoc, adrdy, eocie, dmaen, chselr, smpr, dr,
                   ccr, nvicvars, enIgnore, rdyDue>>
    /\ UNCHANGED <<pc, inst, sample_time, chan, tokens, waker, woken, signals,
                   complAt, selhist>>

\* ------------------------------------------------------------------ read
\* read(pin): the pin capability gives the channel and goes to analog mode.
read(pin) ==
    /\ pc = "ready"
    /\ calls < budget
    /\ calls' = calls + 1
    /\ UNCHANGED progvars
    /\ delay_us' = <<>>
    /\ chan' = pin
    /\ result' = None
    /\ pc' = "read_channel"
    /\ UNCHANGED <<hwvars, inst, sample_time, tokens, waker, woken, signals,
                   complAt, selhist>>

\* read_internal(token): the token gives the channel.  Any token the
\* program holds can be passed, whichever instance handed it out.
read_internal(tok) ==
    /\ pc = "ready"
    /\ calls < budget
    /\ calls' = calls + 1
    /\ UNCHANGED progvars
    /\ delay_us' = <<>>
    /\ tok \in tokens
    /\ chan' = channel(tok)
    /\ result' = None
    /\ pc' = "read_channel"
    /\ UNCHANGED <<hwvars, inst, sample_time, tokens, waker, woken, signals,
                   complAt, selhist>>

\* read_channel as it would be with modify in place of write: the earlier
\* selection is kept.
read_channel_modify ==
    /\ pc = "read_channel"
    /\ chselr' = chselr \cup {chan}
    /\ switched' = (chselr # {} /\ chselr # {chan})
    /\ pc' = "convert_clear"
    /\ UNCHANGED <<clk, crvars, eoc, adrdy, eocie, dmaen, res, smpr, dr, ccr,
                   nvicvars, enIgnore, rdyDue>>
    /\ UNCHANGED <<inst, taskvars, signals, complAt, calls, progvars,
                   delay_us, ignored>>

\* read_channel: chselr().write(set_chselx(channel, true)); a write starts
\* from the register's reset value, so only this bit is set.
read_channel ==
    /\ pc = "read_channel"
    /\ chselr' = {chan}
    /\ switched' = (chselr # {} /\ chselr # {chan})
    /\ pc' = "convert_clear"
    /\ UNCHANGED <<clk, crvars, eoc, adrdy, eocie, dmaen, res, smpr, dr, ccr,
                   nvicvars, enIgnore, rdyDue>>
    /\ UNCHANGED <<inst, taskvars, signals, complAt, calls, progvars,
                   delay_us, ignored>>

\* convert: isr().modify(set_eoc(true), set_eosmp(true)); the modify writes
\* back every flag it read as set, and a written 1 clears the flag.
convert_clear ==
    /\ pc = "convert_clear"
    /\ eoc' = FALSE
    /\ adrdy' = FALSE
    /\ pc' = "convert_smpr"
    /\ UNCHANGED <<clk, crvars, eocie, cfgvars, dr, nvicvars, enIgnore,
                   rdyDue>>
    /\ UNCHANGED <<inst, taskvars, histvars>>

\* convert as it would be without the write of the sample time: the stored
\* setting never reaches the hardware.
convert_smpr_skipped ==
    /\ pc = "convert_smpr"
    /\ pc' = "convert_eocie"
    /\ UNCHANGED <<hwvars, inst, taskvars, histvars>>

\* smpr().modify(set_smp(self.sample_time))
convert_smpr ==
    /\ pc = "convert_smpr"
    /\ smpr' = sample_time
    /\ pc' = "convert_eocie"
    /\ UNCHANGED <<clk, crvars, eoc, adrdy, eocie, dmaen, res, chselr, dr,
                   ccr, nvicvars, enIgnore, rdyDue>>
    /\ UNCHANGED <<inst, taskvars, histvars>>

\* ier().modify(set_eocie(true))
convert_eocie ==
    /\ pc = "convert_eocie"
    /\ eocie' = TRUE
    /\ nvicPend' = Latch(nvicPend, eoc, TRUE)
    /\ pc' = "convert_adstart"
    /\ UNCHANGED <<clk, crvars, eoc, adrdy, cfgvars, dr, nvicEn, enIgnore,
                   rdyDue>>
    /\ UNCHANGED <<inst, taskvars, histvars>>

\* cr().modify(set_adstart(true)): the conversion of this read starts.
convert_adstart ==
    /\ pc = "convert_adstart"
    /\ adstart' = TRUE
    /\ signals' = 0
    /\ complAt' = NotYet
    /\ pc' = "poll_register"
    /\ UNCHANGED <<clk, aden, addis, adstp, adcal, eoc, adrdy, eocie, cfgvars,
                   dr, nvicvars, enIgnore, rdyDue>>
    /\ UNCHANGED <<inst, taskvars, calls, progvars, delay_us, selhist>>

\* The poll with the flag checked before the waker is registered.
poll_check_first ==
    \/ /\ pc = "poll_register"
       /\ pc' = IF eoc THEN "read_dr" ELSE "poll_check"
       /\ UNCHANGED <<hwvars, inst, taskvars, histvars>>
    \/ /\ pc = "poll_check"
       /\ waker' = TRUE
       /\ pc' = "pending"
       /\ UNCHANGED <<hwvars, inst, sample_time, chan, tokens, woken, result,
                      histvars>>

\* poll_fn: T::state().waker.register(cx.waker())
poll_register ==
    /\ pc = "poll_register"
    /\ waker' = TRUE
    /\ pc' = "poll_check"
    /\ UNCHANGED <<hwvars, inst, sample_time, chan, tokens, woken, result,
                   histvars>>

\* The flag check as it would be with a poll that gives up waiting.
poll_check_no_wait ==
    /\ pc = "poll_check"
    /\ pc' = "read_dr"
    /\ UNCHANGED <<hwvars, inst, taskvars, histvars>>

\* The flag check as it would be with the test inverted.
poll_check_inverted ==
    /\ pc = "poll_check"
    /\ pc' = IF eoc THEN "pending" ELSE "read_dr"
    /\ UNCHANGED <<hwvars, inst, taskvars, histvars>>

\* poll_fn: if isr().read().eoc() { Poll::Ready(()) } else { Poll::Pending }
poll_check ==
    /\ pc = "poll_check"
    /\ pc' = IF eoc THEN "read_dr" ELSE "pending"
    /\ UNCHANGED <<hwvars, inst, taskvars, histvars>>

\* The resumption as it would be if a wake-up were taken for the completion,
\* without the flag check.
poll_resume_no_check ==
    /\ pc = "pending"
    /\ woken
    /\ woken' = FALSE
    /\ pc' = "read_dr"
    /\ UNCHANGED <<hwvars, inst, sample_time, chan, tokens, waker, result,
                   histvars>>

\* .await: the scheduler polls the suspended task again once it was woken.
poll_resume ==
    /\ pc = "pending"
    /\ woken
    /\ woken' = FALSE
    /\ pc' = "poll_register"
    /\ UNCHANGED <<hwvars, inst, sample_time, chan, tokens, waker, result,
                   histvars>>

\* The read as it would be with left-aligned data (CFGR1.ALIGN set): the
\* code sits in the upper bits of the 16-bit data field.
convert_read_dr_left_aligned ==
    /\ pc = "read_dr"
    /\ result' = (dr * 2 ^ (16 - ResolutionBits(res))) % 2 ^ 16
    /\ eoc' = FALSE
    /\ pc' = "ready"
    /\ UNCHANGED <<clk, crvars, adrdy, eocie, cfgvars, dr, nvicvars, enIgnore,
                   rdyDue>>
    /\ UNCHANGED <<inst, sample_time, chan, tokens, waker, woken, histvars>>

\* dr().read().data(): reading DR clears EOC; the read returns the data.
convert_read_dr ==
    /\ pc = "read_dr"
    /\ result' = dr
    /\ eoc' = FALSE
    /\ pc' = "ready"
    /\ UNCHANGED <<clk, crvars, adrdy, eocie, cfgvars, dr, nvicvars, enIgnore,
                   rdyDue>>
    /\ UNCHANGED <<inst, sample_time, chan, tokens, waker, woken, histvars>>

\* ------------------------------------------------------------------ drop
\* cr().modify(set_adstp(true))
drop_adstp ==
    /\ pc = "ready"
    /\ adstp' = TRUE
    /\ pc' = "drop_wait_adstp"
    /\ UNCHANGED <<clk, aden, addis, adstart, adcal, eoc, adrdy, eocie,
                   cfgvars, dr, nvicvars, enIgnore, rdyDue>>
    /\ UNCHANGED <<inst, taskvars, histvars>>

\* while cr().read().adstp() {}
drop_wait_adstp ==
    /\ pc = "drop_wait_adstp"
    /\ ~adstp
    /\ pc' = "drop_addis"
    /\ UNCHANGED <<hwvars, inst, taskvars, histvars>>

\* cr().modify(set_addis(true))
drop_addis ==
    /\ pc = "drop_addis"
    /\ addis' = TRUE
    /\ pc' = "drop_wait_aden"
    /\ UNCHANGED <<clk, aden, adstart, adstp, adcal, eoc, adrdy, eocie,
                   cfgvars, dr, nvicvars, enIgnore, rdyDue>>
    /\ UNCHANGED <<inst, taskvars, histvars>>

\* The disable wait as it would be without the loop.
drop_wait_aden_no_wait ==
    /\ pc = "drop_wait_aden"
    /\ pc' = "drop_disable"
    /\ UNCHANGED <<hwvars, inst, taskvars, histvars>>

\* while cr().read().aden() {}
drop_wait_aden ==
    /\ pc = "drop_wait_aden"
    /\ ~aden
    /\ pc' = "drop_disable"
    /\ UNCHANGED <<hwvars, inst, taskvars, histvars>>

\* T::disable(): the clock service turns the ADC clock off.
drop_disable ==
    /\ pc = "drop_disable"
    /\ clk' = FALSE
    /\ pc' = "disabled"
    /\ UNCHANGED <<crvars, eoc, adrdy, eocie, cfgvars, dr, nvicvars, enIgnore,
                   rdyDue>>
    /\ UNCHANGED <<inst, taskvars, histvars>>

\* ------------------------------------------------------- specifications
\* The calls the program chooses to make.
Call ==
    \/ new_enable
    \/ enable_vbat
    \/ enable_vref
    \/ enable_temperature
    \/ \E s \in SampleTimes : set_sample_time(s)
    \/ \E r \in Resolutions : set_resolution(r)
    \/ \E pin \in Pins : read(pin)
    \/ \E tok \in Tokens : read_internal(tok)
    \/ drop_adstp

\* The steps of a call under way: the task runs on until it suspends.
Step ==
    \/ new_reset
    \/ new_dmaen
    \/ new_adcal
    \/ new_wait_adcal
    \/ new_clear_adrdy
    \/ new_aden
    \/ new_wait_adrdy
    \/ new_unpend
    \/ new_irq_enable
    \/ enable_vref_delay
    \/ enable_temperature_delay
    \/ read_channel
    \/ convert_clear
    \/ convert_smpr
    \/ convert_eocie
    \/ convert_adstart
    \/ poll_register
    \/ poll_check
    \/ poll_resume
    \/ convert_read_dr
    \/ drop_wait_adstp
    \/ drop_addis
    \/ drop_wait_aden
    \/ drop_disable

Hardware ==
    \/ hw_calibrated
    \/ hw_ready
    \/ hw_eoc
    \/ hw_stopped
    \/ hw_disabled

Next == Call \/ Step \/ Hardware \/ on_interrupt

Spec == Init /\ [][Next]_vars

\* The processor runs the task while it is not suspended, the interrupt is
\* taken while it is pending, and the hardware completes calibration,
\* enabling, stopping and disabling.  Nothing makes a conversion complete.
LiveSpec ==
    /\ Spec
    /\ WF_vars(Step)
    /\ WF_vars(on_interrupt)
    /\ WF_vars(hw_calibrated)
    /\ WF_vars(hw_ready)
    /\ WF_vars(hw_stopped)
    /\ WF_vars(hw_disabled)

\* The program of the internal-channels scenario: it constructs the driver,
\* enables the three internal sources in any order, and then reads internal
\* channels, one read per source.
InternalCalls == 1 + 2 * Cardinality(Tokens)

InitInternal ==
    /\ InitState
    /\ budget = InternalCalls
    /\ NoConversion

CallInternal ==
    \/ new_enable
    \/ ("Vbat" \notin ccr /\ enable_vbat)
    \/ ("Vref" \notin ccr /\ enable_vref)
    \/ ("Temperature" \notin ccr /\ enable_temperature)
    \/ (ccr = Tokens /\ \E tok \in Tokens : read_internal(tok))

StepInternal ==
    \/ new_reset
    \/ new_dmaen
    \/ new_adcal
    \/ new_wait_adcal
    \/ new_clear_adrdy
    \/ new_aden
    \/ new_wait_adrdy
    \/ new_unpend
    \/ new_irq_enable
    \/ enable_vref_delay
    \/ enable_temperature_delay
    \/ read_channel
    \/ convert_clear
    \/ convert_smpr
    \/ convert_eocie
    \/ convert_adstart
    \/ poll_register
    \/ poll_check
    \/ poll_resume
    \/ convert_read_dr

HardwareInternal ==
    \/ hw_calibrated
    \/ hw_ready
    \/ hw_eoc

NextInternal ==
    CallInternal \/ StepInternal \/ HardwareInternal \/ on_interrupt

InternalSpec == InitInternal /\ [][NextInternal]_vars

\* ------------------------------------------- the example's mV conversion
\* convert_to_millivolts of the example:
\* (u32::from(sample) * VREFINT_MV / u32::from(vrefint_sample)) as u16.
\* The product of a u16 and 1230 is below 2^32; the division truncates and
\* panics on a zero divisor; the cast keeps the low 16 bits.
convert_to_millivolts ==
    /\ sample # None /\ millivolts = None
    /\ millivolts' =
           IF vrefint_sample = 0
           THEN Panicked
           ELSE ((sample * VREFINT_MV) \div vrefint_sample) % (2 ^ 16)
    /\ UNCHANGED <<vrefint_sample, sample, budget>>
    /\ UNCHANGED <<hwvars, swvars, signals, complAt, calls, delay_us,
                   selhist>>

\* The example's conversion on its own: any two raw codes.
InitMv ==
    /\ InitState
    /\ budget = 0
    /\ vrefint_sample \in Samples
    /\ sample \in Samples
    /\ millivolts = None

NextMv == convert_to_millivolts

MvSpec == InitMv /\ [][NextMv]_vars

\* ------------------------------------------------------ lifecycle views
NewPcs == {"new_reset", "new_dmaen", "new_adcal", "new_wait_adcal",
           "new_clear_adrdy", "new_aden", "new_wait_adrdy", "new_unpend",
           "new_irq_enable"}
ReadyPcs == {"ready", "vref_delay", "temperature_delay"}
\* A read under way, from the call to the return.
ReadPcs == {"read_channel", "convert_clear", "convert_smpr", "convert_eocie",
            "convert_adstart", "poll_register", "poll_check", "pending",
            "read_dr"}
\* The part of a read in which its conversion has been started.
StartedPcs == {"poll_register", "poll_check", "pending", "read_dr"}
DropPcs == {"drop_wait_adstp", "drop_addis", "drop_wait_aden", "drop_disable"}

\* ---------------------------------------------------------------- claims

\* C1: no missed wakeup.  Whenever the hardware has raised EOC for the
\* conversion a read started -- before the waker was registered, between
\* registration and the flag check, or after the poll returned Pending --
\* the read eventually returns (the interrupt is taken while pending, and a
\* woken task is polled again).
C1_NoMissedWakeup ==
    (pc \in StartedPcs /\ complAt # NotYet) ~> (pc = "ready")

\* C1 witness: EOC was raised after the poll returned Pending with no wake
\* queued, and the read has resumed and is about to return.
C1_Witness ==
    pc = "read_dr" /\ complAt = "pending"

\* C2: EOCIE is set only while a conversion is outstanding on the instance
\* (a read has armed a conversion and has not yet returned its result); in
\* particular EOCIE is clear whenever the driver is Ready between reads.
\* This is the half of the claim's equivalence that the handler's own
\* clearing of EOCIE, before the result is returned, does not touch.
C2_EocieOnlyWhileOutstanding ==
    eocie => pc \in {"convert_adstart"} \cup StartedPcs

\* C3: after a read has selected its channel, CHSELR has exactly one bit
\* set, the bit of the channel of the most recent read; at no time are two
\* bits set.
C3_ChannelSelectionExclusive ==
    /\ Cardinality(chselr) <= 1
    /\ (chan # None /\ pc # "read_channel") => chselr = {chan}

\* C3 witness: a read of channel 1 has returned, and its selection replaced
\* the selection of another channel.
C3_Witness ==
    pc = "ready" /\ result # None /\ chan = 1 /\ switched

\* C4 as claimed: a read whose conversion completed after the task had
\* registered its waker and returned Pending has returned with exactly one
\* signal of the handler.
C4_ExactlyOneSignal ==
    (pc = "ready" /\ result # None
        /\ complAt \in {"pending", "pending_queued"}) => signals = 1

\* C4 amended: the handler signals the wake slot at most once for a
\* conversion; once it has, EOCIE is clear and no interrupt is pending
\* until the task has consumed the result; and a read that was suspended
\* with no wake queued when its conversion completed returns after
\* exactly one signal.
C4_AtMostOneSignal ==
    /\ signals <= 1
    /\ (signals = 1 /\ pc \in StartedPcs) => (~eocie /\ ~nvicPend)
    /\ (pc = "ready" /\ result # None /\ complAt = "pending") => signals = 1

\* C4 witness: a read that was suspended when its conversion completed has
\* returned, the handler having signalled once.
C4_Witness ==
    pc = "ready" /\ result # None /\ complAt = "pending" /\ signals = 1

\* C5: ADSTART is written only when no conversion is in flight and no
\* completed conversion is waiting to be consumed.
C5_OneConversionInFlight ==
    pc = "convert_adstart" => (~adstart /\ ~eoc)

\* C5 witness: a read is about to set ADSTART after an earlier conversion
\* on the instance delivered a result.
C5_Witness ==
    pc = "convert_adstart" /\ dr # 0

\* The lifecycle state of the handle at a position of the task.
LifeAt(p) ==
    CASE p = "uninit" -> "Uninitialized"
      [] p \in NewPcs -> "Calibrating"
      [] p \in ReadyPcs -> "Ready"
      [] p \in ReadPcs -> "Converting"
      [] p \in DropPcs -> "Disabling"
      [] p = "disabled" -> "Disabled"

\* The lifecycle state of the i-th handle constructed.
Life(i) ==
    IF i > inst THEN "Uninitialized"
    ELSE IF i < inst THEN "Disabled"
    ELSE LifeAt(pc)

LifeSteps ==
    {<<"Uninitialized", "Calibrating">>, <<"Calibrating", "Ready">>,
     <<"Ready", "Converting">>, <<"Converting", "Ready">>,
     <<"Ready", "Disabling">>, <<"Disabling", "Disabled">>}
        \cup {<<l, l>> : l \in {"Uninitialized", "Calibrating", "Ready",
                                "Converting", "Disabling", "Disabled"}}

\* C6: every handle moves only along Uninitialized -> Calibrating -> Ready,
\* Ready -> Ready, Ready -> Converting -> Ready, Ready -> Disabling ->
\* Disabled; Disabled is left by no step; and ADSTART is set only by a
\* step of a handle that is Converting, on an enabled ADC.
C6_Lifecycle ==
    [][/\ \A i \in 1 .. MaxCalls : <<Life(i), Life(i)'>> \in LifeSteps
       /\ (adstart' /\ ~adstart) =>
              (inst >= 1 /\ Life(inst) = "Converting" /\ clk /\ aden)]_vars

\* C6 witness: a handle that has read is Disabled.
C6_Witness ==
    pc = "disabled" /\ dr # 0

\* C7: ADSTP is set first; ADDIS is set only once ADSTP reads clear; the
\* clock is disabled only once ADEN (and with it ADDIS, ADSTP) reads clear.
C7_TeardownOrder ==
    [][/\ (pc = "ready" /\ pc' \in DropPcs) => adstp'
       /\ (addis' /\ ~addis) => (pc = "drop_addis" /\ ~adstp)
       /\ (clk /\ ~clk') => (pc = "drop_disable" /\ ~aden /\ ~adstp)]_vars

\* C7 witness: a handle dropped right after a read returned is Disabled.
C7_Witness ==
    pc = "disabled" /\ result # None /\ ~clk /\ ~aden

\* C8: Adc::new returns: a bring-up under way reaches Ready, whatever
\* number of enable writes (up to MaxIgnore) the hardware ignores after
\* calibration; and the instance it returns is enabled.
C8_BringUpTerminates ==
    /\ (pc \in NewPcs) ~> (pc = "ready")
    /\ [](pc = "ready" => (clk /\ aden))

\* C8 witness: ADRDY was observed after the hardware ignored MaxIgnore
\* enable writes.
C8_Witness ==
    pc = "new_unpend" /\ ignored = MaxIgnore /\ adrdy /\ aden

\* C9: while a read converts an internal channel, the enable bit of that
\* source is set in CCR.
C9_InternalSourceEnabled ==
    (pc \in ReadPcs /\ pc # "read_channel" /\ EnableBitOf(chan) # "none")
        => EnableBitOf(chan) \in ccr

\* C10: the task goes on to read DR only from a poll that saw EOC set by
\* the conversion this read started; a read returns only from there; and
\* while that conversion has not completed the read stays in its poll loop.
C10_ReturnsOnlyOnCompletion ==
    [][/\ (pc' = "read_dr" /\ pc # "read_dr") =>
              (pc = "poll_check" /\ eoc /\ complAt # NotYet)
       /\ (pc \in ReadPcs /\ pc' \notin ReadPcs) => pc = "read_dr"
       /\ (pc \in StartedPcs /\ complAt = NotYet) =>
              pc' \in {"poll_register", "poll_check", "pending"}]_vars

\* C10 witness: a read that was suspended has returned its result.
C10_Witness ==
    pc = "ready" /\ result # None /\ complAt \in {"pending", "pending_queued"}

\* C11: a handler entry that finds EOC clear is ignored: it leaves EOCIE as
\* it was and does not signal the wake slot; an entry that finds EOC set
\* clears EOCIE and signals the wake slot (the registered waker is taken
\* and the task queued), once.
C11_SpuriousIgnored ==
    [][on_interrupt =>
           IF eoc
           THEN /\ ~eocie'
                /\ signals' = signals + 1
                /\ ~waker'
                /\ woken' = (woken \/ waker)
           ELSE /\ eocie' = eocie
                /\ UNCHANGED <<waker, woken, signals>>]_vars

\* C11 witness: a read has returned with the line still pending (the poll
\* saw EOC before the handler ran), and the handler has since been entered
\* with EOC clear: EOCIE is as it was and nothing was signalled.
C11_Witness ==
    pc = "ready" /\ result # None /\ eocie /\ ~nvicPend /\ signals = 0

\* C12: the handler changes only EOCIE and the wake slot: it leaves DR and
\* EOC (it does not read DR), CHSELR, SMPR, the resolution and the rest of
\* CFGR1, the control bits, the clock, CCR, the stored sample time and the
\* task's position and data unchanged, wherever the task is.
C12_HandlerFrame ==
    [][on_interrupt =>
           UNCHANGED <<dr, eoc, adrdy, chselr, smpr, res, dmaen, ccr, crvars,
                       clk, sample_time, pc, chan, tokens, result>>]_vars

\* C12 witness: the handler ran between the waker registration and the flag
\* check of a poll; EOC is still set for the task to see.
C12_Witness ==
    pc = "poll_check" /\ signals = 1 /\ eoc /\ ~eocie /\ dr # 0

C14_NoCrossCorruption ==
    /\ [][/\ enable_vbat => (ccr' = ccr \cup {"Vbat"} /\ chselr' = chselr)
          /\ enable_vref => (ccr' = ccr \cup {"Vref"} /\ chselr' = chselr)
          /\ enable_temperature =>
                 (ccr' = ccr \cup {"Temperature"} /\ chselr' = chselr)
          /\ read_internal("Vbat") => chan' = 18
          /\ read_internal("Vref") => chan' = 17
          /\ read_internal("Temperature") => chan' = 16]_vars
    /\ [](chan # None => ccr = Tokens)
    /\ []((chan # None /\ pc # "read_channel") => chselr = {chan})

\* C14 witness: all three sources were enabled and three internal reads
\* have returned, the last one of the temperature channel after the
\* selection of another channel.
C14_Witness ==
    /\ pc = "ready" /\ result # None /\ calls = InternalCalls
    /\ ccr = Tokens /\ chselr = {16} /\ switched

\* C15: set_resolution changes the resolution field of CFGR1 and nothing
\* else; set_sample_time changes the stored sample time and nothing else.
\* Both leave the driver Ready; neither starts a conversion nor changes
\* CHSELR, SMPR, EOCIE, the flags, the interrupt line or the wake slot, and
\* neither has a failing outcome.
C15_MutatorFrame ==
    [][/\ \A r \in Resolutions :
              set_resolution(r) =>
                  /\ res' = r
                  /\ pc = "ready" /\ pc' = "ready"
                  /\ UNCHANGED <<clk, crvars, eoc, adrdy, eocie, dmaen, chselr,
                                 smpr, dr, ccr, nvicvars>>
                  /\ UNCHANGED <<sample_time, chan, tokens, waker, woken>>
       /\ \A s \in SampleTimes :
              set_sample_time(s) =>
                  /\ sample_time' = s
                  /\ pc = "ready" /\ pc' = "ready"
                  /\ UNCHANGED <<clk, crvars, eoc, adrdy, eocie, dmaen, res,
                                 chselr, smpr, dr, ccr, nvicvars>>
                  /\ UNCHANGED <<chan, tokens, waker, woken>>]_vars

\* C15 witness: both mutators were called, set_sample_time after a read:
\* the settings are changed, SMPR still has the value the read applied and
\* no conversion runs.
C15_Witness ==
    /\ pc = "ready" /\ chselr # {} /\ ~adstart
    /\ res = 2 /\ sample_time = 6 /\ smpr = DefaultSampleTime

\* C16: for a reference code R_ref > 0 and a pin code R_pin, the derived
\* millivolt value is R_pin * 1230 / R_ref (the division truncated); for
\* R_ref = 1500 and R_pin = 2048 it is 1680 to within one.
C16_Millivolts ==
    (millivolts # None /\ vrefint_sample > 0) =>
        /\ millivolts = (sample * 1230) \div vrefint_sample
        /\ (vrefint_sample = 1500 /\ sample = 2048) =>
               millivolts \in 1679 .. 1681

\* The ADC registers have their reset values.
RegistersReset ==
    /\ ~aden /\ ~addis /\ ~adstart /\ ~adstp /\ ~adcal
    /\ ~eoc /\ ~adrdy /\ ~eocie /\ ~dmaen
    /\ res = 0 /\ chselr = {} /\ smpr = 0 /\ dr = 0 /\ ccr = {}

\* C17: in Adc::new the first register access finds the clock on and the
\* peripheral freshly reset; calibration is started with DMAEN clear; ADEN
\* is written only with ADCAL clear; no ADRDY is left set when the enable
\* request is made, and ADRDY rises only in answer to it, on the enabled
\* ADC; the line is unpended only once ADRDY was seen set and is enabled
\* at the interrupt controller only after that, with nothing pending.
C17_BringUpOrder ==
    /\ [](/\ pc = "new_dmaen" => (clk /\ RegistersReset)
          /\ pc \in NewPcs => clk
          /\ pc = "new_aden" => (~adcal /\ ~adrdy)
          /\ (pc = "new_wait_adrdy" /\ ~adrdy) => ~adcal
          /\ pc \in {"new_unpend", "new_irq_enable"} => (adrdy /\ aden)
          /\ pc = "new_irq_enable" => ~nvicPend)
    /\ [][/\ (adcal' /\ ~adcal) => (pc = "new_adcal" /\ ~dmaen)
          /\ (aden' /\ ~aden) => ~adcal
          /\ (adrdy' /\ ~adrdy) => (pc = "new_wait_adrdy" /\ aden)
          /\ (nvicEn' /\ ~nvicEn) => pc = "new_irq_enable"
          /\ (pc \in NewPcs /\ pc' = "ready") => pc = "new_irq_enable"]_vars

\* C17 witness: the second driver constructed on the peripheral is Ready:
\* enabled, ADRDY set, the line enabled with nothing pending.
C17_Witness ==
    pc = "ready" /\ inst = 2 /\ calls = 2 /\ aden /\ adrdy /\ nvicEn

\* C18: within a read, ADSTART is set only after CHSELR holds the read's
\* channel, SMPR holds the stored sample time and EOCIE is set; DR is read
\* once, by the step that ends the read, after the poll returned Ready; and
\* every conversion runs with SMPR equal to the sample time stored by the
\* most recent set_sample_time (the default when there was none).
C18_ConversionOrder ==
    /\ [][/\ (adstart' /\ ~adstart) =>
                 /\ pc = "convert_adstart"
                 /\ chselr = {chan} /\ smpr = sample_time /\ eocie
          /\ (pc \in ReadPcs /\ pc' = "ready") =>
                 (convert_read_dr /\ result' = dr /\ complAt # NotYet)
          /\ (pc = "read_dr" /\ pc' # pc) => pc' = "ready"
          /\ (pc' = "read_dr" /\ pc # pc') => pc = "poll_check"
          /\ (pc = "ready" /\ pc' = "ready" /\ sample_time' # sample_time)
                 => \E s \in SampleTimes : set_sample_time(s)]_vars
    /\ [](pc \in StartedPcs => (smpr = sample_time /\ chselr = {chan}))
    /\ []((pc = "ready" /\ inst = 1 /\ calls = 1) =>
              sample_time = DefaultSampleTime)

\* C18 witness: after set_sample_time, the second read of the instance has
\* returned, converted with the sample time that was set.
C18_Witness ==
    /\ pc = "ready" /\ result # None /\ switched
    /\ sample_time = 6 /\ smpr = 6

\* C19: EOC is clear when EOCIE is enabled and when ADSTART is set; EOC is
\* set, and DR written, only by the completion of the conversion the read
\* under way started, on the channel it selected, and stays set only until
\* that read has fetched DR.  So a poll goes on to DR, and the handler
\* signals, only for the completion of the read under way, and the value
\* a read returns is the DR of its own conversion.
C19_NoStaleCompletion ==
    /\ [](eoc => (pc \in StartedPcs /\ complAt # NotYet))
    /\ [][/\ (eocie' /\ ~eocie) => ~eoc
          /\ (adstart' /\ ~adstart) => (~eoc /\ pc = "convert_adstart")
          /\ (eoc' /\ ~eoc) =>
                 /\ pc \in {"poll_register", "poll_check", "pending"}
                 /\ complAt = NotYet
                 /\ chselr = {chan}
          /\ (dr' # dr) => ((eoc' /\ ~eoc) \/ pc = "new_reset")
          /\ (pc' = "read_dr" /\ pc # "read_dr") =>
                 (eoc /\ complAt # NotYet)
          /\ (on_interrupt /\ signals' # signals) =>
                 (pc \in StartedPcs /\ complAt # NotYet)
          /\ (pc \in ReadPcs /\ pc' = "ready") =>
                 (result' = dr /\ complAt # NotYet)]_vars

\* C19 witness: a wake-up left over from the earlier read was queued when
\* the conversion of this read completed; the poll it caused saw the EOC of
\* this conversion, and the read is about to fetch DR.
C19_Witness ==
    pc = "read_dr" /\ complAt = "pending_queued" /\ signals = 0 /\ eoc

\* C20: enable_vref and enable_temperature set their enable bit, then call
\* delay.delay_us once, with 10, and only then return their token;
\* enable_vbat sets its bit and returns its token with no delay call.
C20_SettlingDelay ==
    [][/\ enable_vbat =>
              /\ "Vbat" \in ccr' /\ delay_us' = <<>>
              /\ tokens' = tokens \cup {"Vbat"} /\ pc' = "ready"
       /\ enable_vref =>
              /\ "Vref" \in ccr' /\ delay_us' = <<>>
              /\ tokens' = tokens /\ pc' = "vref_delay"
       /\ enable_temperature =>
              /\ "Temperature" \in ccr' /\ delay_us' = <<>>
              /\ tokens' = tokens /\ pc' = "temperature_delay"
       /\ (pc = "vref_delay" /\ pc' # pc) =>
              /\ "Vref" \in ccr /\ delay_us' = <<10>>
              /\ tokens' = tokens \cup {"Vref"} /\ pc' = "ready"
       /\ (pc = "temperature_delay" /\ pc' # pc) =>
              /\ "Temperature" \in ccr /\ delay_us' = <<10>>
              /\ tokens' = tokens \cup {"Temperature"} /\ pc' = "ready"
       /\ (tokens' # tokens) =>
              \/ tokens' = tokens \cup {"Vbat"} /\ delay_us' = <<>>
              \/ tokens' \in {tokens \cup {"Vref"},
                               tokens \cup {"Temperature"}}
                     /\ delay_us' = <<10>>]_vars

\* C20 witness: the battery source was enabled, and then enable_temperature
\* has returned its token after its one delay of 10 us.
C20_Witness ==
    /\ pc = "ready" /\ delay_us = <<10>>
    /\ tokens = {"Vbat", "Temperature"} /\ ccr = {"Vbat", "Temperature"}

====
